---- MODULE Spec2Model ----
(***************************************************************************)
(* Call-lifecycle orchestration of the voice interview backend             *)
(* (src/backend/main.py, src/backend/models.py).                           *)
(*                                                                         *)
(* The durable store (table "interviews") and the progress cache (redis)   *)
(* are the state.  Every HTTP handler and every background task is an      *)
(* action; a handler that awaits is split at its await points, and the     *)
(* code between two awaits runs as one step of the event loop.  A commit   *)
(* is modelled as storing the values the handler assigned.                 *)
(***************************************************************************)
EXTENDS Integers, Sequences, FiniteSets, TLC

\* ------------------------------------------------------------------ bounds
MaxQ == 2          \* longest question list the generative capability returns
MaxCallTasks == 1  \* make_plivo_call tasks pending for one interview
MaxReportTasks == 2 \* generate_interview_report tasks pending for one interview

MaxResponses == MaxQ + 1   \* responses stored for one interview

InterviewIds == {"iv1"}
Slots == {1, 2}            \* recording webhooks in flight at the same time

\* ------------------------------------------------------------ option values
None == <<>>
Some(v) == <<v>>
Get(o) == o[1]

\* ------------------------------------------------------------- vocabulary
QuestionPool == <<"qA", "qB", "qC", "qD">>
FallbackQuestions == <<"Tell me about yourself.", "What are your strengths?">>

NoRecording == "none"                  \* the form carries no RecordingUrl
RecordingUrls == {"rec1", NoRecording}

CallStatuses == {"no-answer", "busy", "failed", "canceled", "completed", "other"}

DispatchOutcomes == {"accepted", "http_error", "network_error"}

Greeting == "Hello. This is an automated screening call. Let's begin."
NextQuestion == "Next question."
ThankYou == "Thank you. The interview is complete. We will be in touch shortly."
Sorry == "Sorry, I could not find the interview questions."

VARIABLES
    interviews,              \* durable rows: id -> [status, questions, responses, report]
    redis_questions,         \* redis key interview:{id}:questions
    redis_current_question,  \* redis key interview:{id}:current_question
    createPc,                \* create_interview: "idle" | "awaiting_ai" | "done"
    callTasks,               \* background make_plivo_call tasks pending, per id
    reportTasks,             \* background generate_interview_report tasks not started
    reportAwaiting,          \* report tasks suspended in await call_google_ai
    reportWrites,            \* history, None when off: assignments of interview.report (2 = more)
    requests_,               \* process_response requests suspended in await request.form()
    turn,                    \* history: responses stored since the last answer
    roundTrip,               \* history: progress along answer, record*, hangup
    last                     \* history: the step just taken and what it returned

vars == <<interviews, redis_questions, redis_current_question, createPc, callTasks,
          reportTasks, reportAwaiting, reportWrites, requests_, turn, roundTrip, last>>

\* ------------------------------------------------- text of the capabilities
\* A response text is a sequence of tokens: "[", "]", "{", "}", prose ("w") and
\* string literals.  Python's str.find / str.rfind / slicing are kept as they are.
Min(a, b) == IF a < b THEN a ELSE b
Max(a, b) == IF a > b THEN a ELSE b

Find(text, tok) ==
    IF \E k \in 1..Len(text) : text[k] = tok
    THEN (CHOOSE k \in 1..Len(text) :
             text[k] = tok /\ \A j \in 1..(k - 1) : text[j] # tok) - 1
    ELSE -1

RFind(text, tok) ==
    IF \E k \in 1..Len(text) : text[k] = tok
    THEN (CHOOSE k \in 1..Len(text) :
             text[k] = tok /\ \A j \in (k + 1)..Len(text) : text[j] # tok) - 1
    ELSE -1

\* text[a:b] for b >= 0
Slice(text, a, b) ==
    LET n == Len(text)
        lo == IF a < 0 THEN Max(n + a, 0) ELSE Min(a, n)
        hi == Min(b, n)
    IN  IF lo < hi THEN SubSeq(text, lo + 1, hi) ELSE <<>>

Punctuation == {"[", "]", "{", "}", "w"}

\* json.loads of a slice that is to hold an array of strings
JsonLoadsArray(s) ==
    IF /\ Len(s) >= 2
       /\ s[1] = "["
       /\ s[Len(s)] = "]"
       /\ \A k \in 2..(Len(s) - 1) : s[k] \notin Punctuation
    THEN [ok |-> TRUE, value |-> SubSeq(s, 2, Len(s) - 1)]
    ELSE [ok |-> FALSE, value |-> <<>>]

AiFailed == "AI response generation failed."
ErrorJson == <<"{", "error", "}">>      \* json.dumps({"error": AiFailed})

\* json.loads of a slice that is to hold one object
JsonLoadsObject(s) ==
    IF /\ Len(s) >= 2
       /\ s[1] = "{"
       /\ s[Len(s)] = "}"
       /\ Len(s) <= 3
       /\ \A k \in 2..(Len(s) - 1) : s[k] \notin Punctuation
    THEN [ok |-> TRUE,
          value |-> IF Len(s) = 2 THEN [error |-> "", fields |-> ""]
                    ELSE IF s[2] = "error" THEN [error |-> AiFailed, fields |-> ""]
                    ELSE [error |-> "", fields |-> s[2]]]
    ELSE [ok |-> FALSE, value |-> [error |-> "", fields |-> ""]]

\* call_google_ai: the text of the reply, or the error document when the call raises
call_google_ai(reply) == IF reply.raised THEN ErrorJson ELSE reply.text

Questions(n) == SubSeq(QuestionPool, 1, n)

QuestionTexts ==
    {<<"[">> \o Questions(n) \o <<"]">> : n \in 0..MaxQ}
    \cup {<<"w", "[", "qA", "]", "w">>, <<"w">>, <<"[", "qA">>, <<"w", "]">>}

ReportTexts ==
    {<<"{", "report", "}">>, <<"w", "{", "report", "}", "w">>, <<"{", "}">>,
     <<"w">>, <<"{", "report">>, <<"{", "w", "}">>}

Replies(texts) ==
    {[raised |-> TRUE, text |-> <<>>]} \cup {[raised |-> FALSE, text |-> t] : t \in texts}

\* create_interview, lines 161-164
ParseQuestions(questions_text) ==
    LET loaded == JsonLoadsArray(Slice(questions_text, Find(questions_text, "["),
                                       RFind(questions_text, "]") + 1))
    IN  IF loaded.ok THEN loaded.value ELSE FallbackQuestions

\* generate_interview_report, lines 120-122
ParseReport(report_text) ==
    JsonLoadsObject(Slice(report_text, Find(report_text, "{"),
                          RFind(report_text, "}") + 1))

NoValidResponses == [error |-> "No valid responses to analyze.", fields |-> ""]
FailedToGenerate == [error |-> "Failed to generate AI report.", fields |-> ""]

\* ------------------------------------------------------ what a step returns
\* A voice directive document: the texts spoken, in order, and the directive that
\* ends the document.  ok = FALSE is a handler that raised (HTTP 500, no document).
Directive(say, then) == [ok |-> TRUE, say |-> say, then |-> then]
Raised(exc) == [ok |-> FALSE, say |-> <<>>, then |-> exc]
Plain(body) == [ok |-> TRUE, say |-> <<>>, then |-> body]

Step(op, id, arg, ret, appended, raced) ==
    [op |-> op, id |-> id, arg |-> arg, ok |-> ret.ok, say |-> ret.say,
     then |-> ret.then, appended |-> appended, raced |-> raced]

Rows == DOMAIN interviews
StatusOf(i) == IF i \in Rows THEN interviews[i].status ELSE "absent"

\* ------------------------------------------------------------ durable store
\* models.Interview, the columns a commit writes
MappedColumns == {"status", "questions", "responses"}

\* db.commit(): the assigned attributes that are mapped columns reach the row
Commit(row, assigned) ==
    [f \in DOMAIN row |->
        IF f \in DOMAIN assigned /\ f \in MappedColumns THEN assigned[f] ELSE row[f]]

\* models.Interview(...) as create_interview inserts it
NewInterview ==
    [status |-> "generating_questions", questions |-> None, responses |-> <<>>,
     report |-> None]

\* ------------------------------------------------------------- history
\* roundTrip follows the webhook events of one interview along
\* answer, record, ..., record, hangup and leaves the path on anything else.
RoundTripStart == [phase |-> "start", refs |-> <<>>]
RoundTripOff == [phase |-> "off", refs |-> <<>>]

RoundTripNext(rt, event, url) ==
    IF rt.phase = "start" /\ event = "answer" THEN [rt EXCEPT !.phase = "answered"]
    ELSE IF rt.phase = "answered" /\ event = "record"
         THEN [rt EXCEPT !.refs = Append(@, url)]
    ELSE IF rt.phase = "answered" /\ event = "hangup" THEN [rt EXCEPT !.phase = "hungup"]
    ELSE RoundTripOff

Idle == [pc |-> "idle", id |-> "", url |-> "", raced |-> FALSE]
InFlight(i) == {s \in Slots : requests_[s].pc = "form" /\ requests_[s].id = i}

\* ---------------------------------------------------------------- Init
Init ==
    /\ interviews = <<>>
    /\ redis_questions = [i \in InterviewIds |-> None]
    /\ redis_current_question = [i \in InterviewIds |-> None]
    /\ createPc = [i \in InterviewIds |-> "idle"]
    /\ callTasks = [i \in InterviewIds |-> 0]
    /\ reportTasks = [i \in InterviewIds |-> 0]
    /\ reportAwaiting = [i \in InterviewIds |-> 0]
    /\ reportWrites = [i \in InterviewIds |-> None]
    /\ requests_ = [s \in Slots |-> Idle]
    /\ turn = [i \in InterviewIds |-> None]
    /\ roundTrip = [i \in InterviewIds |-> RoundTripStart]
    /\ last = Step("init", "", "", Plain(""), FALSE, FALSE)

\* ------------------------------------------------------- create_interview
\* lines 149-160: insert the row, then await the generative capability
CreateBegin(i) ==
    /\ createPc[i] = "idle"
    /\ i \notin Rows
    /\ interviews' = interviews @@ (i :> NewInterview)
    /\ createPc' = [createPc EXCEPT ![i] = "awaiting_ai"]
    /\ last' = Step("create_begin", i, "", Plain(""), FALSE, FALSE)
    /\ UNCHANGED <<reportWrites, redis_questions, redis_current_question, callTasks, reportTasks,
                   reportAwaiting, requests_, turn, roundTrip>>

\* lines 160-170: parse the reply, store and cache the questions, schedule the call
CreateFinish(i, reply) ==
    /\ createPc[i] = "awaiting_ai"
    /\ LET questions == ParseQuestions(call_google_ai(reply))
       IN  /\ interviews' = [interviews EXCEPT ![i] =
                  Commit(@, [questions |-> Some(questions), status |-> "ready_to_call"])]
           /\ redis_questions' = [redis_questions EXCEPT ![i] = Some(questions)]
    /\ callTasks' = [callTasks EXCEPT ![i] = @ + 1]
    /\ createPc' = [createPc EXCEPT ![i] = "done"]
    /\ last' = Step("create", i, "", Plain("Interview created."), FALSE, FALSE)
    /\ UNCHANGED <<reportWrites, redis_current_question, reportTasks, reportAwaiting, requests_, turn,
                   roundTrip>>

\* ---------------------------------------------------- manual_call_trigger
\* lines 173-177
ManualCallTrigger(i) ==
    /\ IF i \notin Rows
       THEN /\ last' = Step("call", i, "", Raised("HTTP 404"), FALSE, FALSE)
            /\ UNCHANGED callTasks
       ELSE /\ callTasks[i] + (IF createPc[i] = "awaiting_ai" THEN 1 ELSE 0) < MaxCallTasks
            /\ callTasks' = [callTasks EXCEPT ![i] = @ + 1]
            /\ last' = Step("call", i, "", Plain("Call initiated manually."),
                            FALSE, FALSE)
    /\ UNCHANGED <<reportWrites, interviews, redis_questions, redis_current_question, createPc,
                   reportTasks, reportAwaiting, requests_, turn, roundTrip>>

\* -------------------------------------------------------- make_plivo_call
\* lines 139-144: requests.post raises only on a network error; a response with an
\* error status is returned like any other
DispatchStatus(outcome) ==
    IF outcome = "network_error" THEN "call_failed" ELSE "ringing"

MakePlivoCall(i, outcome) ==
    /\ callTasks[i] > 0
    /\ callTasks' = [callTasks EXCEPT ![i] = @ - 1]
    /\ interviews' = [interviews EXCEPT ![i] =
           Commit(@, [status |-> DispatchStatus(outcome)])]
    /\ last' = Step("dispatch", i, outcome, Plain(""), FALSE, FALSE)
    /\ UNCHANGED <<reportWrites, redis_questions, redis_current_question, createPc, reportTasks,
                   reportAwaiting, requests_, turn, roundTrip>>

\* ------------------------------------------------------ handle_call_answer
\* line 196: the document speaking questions[0]; an empty list raises
AnswerDocument(questions) ==
    IF Len(questions) = 0 THEN Raised("IndexError")
    ELSE Directive(<<Greeting, questions[1]>>, "Record")

\* a handler that marks the call in progress before it looks for the cached list
AnswerBodyEager(cached, status, cursor) ==
    [ret |-> IF cached = None THEN Directive(<<Sorry>>, "Hangup")
             ELSE AnswerDocument(Get(cached)),
     status |-> "in_progress", cursor |-> Some(0), found |-> cached # None]

\* lines 186-197 on the cached list, the row's status and the cursor
AnswerBody(cached, status, cursor) ==
    IF cached = None
    THEN [ret |-> Directive(<<Sorry>>, "Hangup"), status |-> status, cursor |-> cursor,
          found |-> FALSE]
    ELSE [ret |-> AnswerDocument(Get(cached)), status |-> "in_progress",
          cursor |-> Some(0), found |-> TRUE]

\* lines 185-197; nothing is awaited, the handler is one step
HandleCallAnswer(i) ==
    LET out == AnswerBody(redis_questions[i], StatusOf(i), redis_current_question[i])
    IN  /\ interviews' = [r \in Rows |->
               IF r = i THEN Commit(interviews[r], [status |-> out.status])
               ELSE interviews[r]]
        /\ redis_current_question' = [redis_current_question EXCEPT ![i] = out.cursor]
        /\ last' = Step("answer", i, "", out.ret, FALSE, FALSE)
        /\ turn' = [turn EXCEPT ![i] = IF out.found THEN Some(0) ELSE @]
        /\ roundTrip' = [roundTrip EXCEPT ![i] =
               IF out.found THEN RoundTripNext(@, "answer", "") ELSE RoundTripOff]
        /\ UNCHANGED <<reportWrites, redis_questions, createPc, callTasks, reportTasks, reportAwaiting,
                       requests_>>

\* -------------------------------------------------------- process_response
\* line 201: the request is received and its form awaited
RecordReceive(s, i, url) ==
    /\ requests_[s].pc = "idle"
    /\ \A t \in Slots : t < s => requests_[t].pc # "idle"
    /\ i \in Rows => Len(interviews[i].responses) + Cardinality(InFlight(i)) < MaxResponses
    /\ requests_' = [requests_ EXCEPT ![s] =
           [pc |-> "form", id |-> i, url |-> url, raced |-> FALSE]]
    /\ last' = Step("record_received", i, "", Plain(""), FALSE, FALSE)
    /\ UNCHANGED <<reportWrites, interviews, redis_questions, redis_current_question, createPc,
                   callTasks, reportTasks, reportAwaiting, turn, roundTrip>>

\* a handler that never reads the cursor
CurrentIndexZero(cursor) == 0

\* line 205
CurrentIndex(cursor) == IF cursor = None THEN 0 ELSE Get(cursor)

\* a comparison that ends the interview one question early
HasNextEarly(next_index, questions) == next_index + 1 < Len(questions)

\* line 213
HasNext(next_index, questions) == next_index < Len(questions)

\* line 208
NewResponse(questions, current_index, recording_url) ==
    [question |-> questions[current_index + 1], recording_url |-> recording_url]

\* lines 204-222 on a row and a cursor: what is raised or returned, and what is stored
ProcessResponseBody(row, cursor, recording_url) ==
    LET current_index == CurrentIndex(cursor)
        next_index == current_index + 1
        keep == [ret |-> Raised(""), row |-> row, cursor |-> cursor, appended |-> FALSE]
    IN  IF row.questions = None THEN [keep EXCEPT !.ret = Raised("TypeError")]
        ELSE LET questions == Get(row.questions)
                 appended == Commit(row, [responses |->
                     Append(row.responses,
                            NewResponse(questions, current_index, recording_url))])
             IN  IF current_index >= Len(questions)
                 THEN [keep EXCEPT !.ret = Raised("IndexError")]
                 ELSE IF HasNext(next_index, questions)
                 THEN [ret |-> Directive(<<NextQuestion, questions[next_index + 1]>>,
                                         "Record"),
                       row |-> appended,
                       cursor |-> Some(next_index),
                       appended |-> TRUE]
                 ELSE [ret |-> Directive(<<ThankYou>>, "Hangup"),
                       row |-> Commit(appended, [status |-> "completed"]),
                       cursor |-> cursor,
                       appended |-> TRUE]

\* lines 202-222 for interview i: the stores, the directive returned and the history
Respond(i, recording_url, raced) ==
    /\ IF i \notin Rows
       THEN /\ last' = Step("record", i, "", Raised("AttributeError"), FALSE, raced)
            /\ UNCHANGED <<interviews, redis_current_question>>
       ELSE LET out == ProcessResponseBody(interviews[i], redis_current_question[i],
                                           recording_url)
            IN  /\ interviews' = [interviews EXCEPT ![i] = out.row]
                /\ redis_current_question' =
                       [redis_current_question EXCEPT ![i] = out.cursor]
                /\ last' = Step("record", i, "", out.ret, out.appended, raced)
    /\ turn' = [turn EXCEPT ![i] =
           IF @ # None /\ last'.appended THEN Some(Get(@) + 1) ELSE @]
    /\ roundTrip' = [roundTrip EXCEPT ![i] =
           IF last'.appended THEN RoundTripNext(@, "record", recording_url)
           ELSE RoundTripOff]

\* lines 200-222: a recording webhook handled with no other request of the interview
\* in flight.  The form is awaited before anything is read, so the handler is one step.
ProcessResponse(i, recording_url) ==
    /\ i \in Rows => Len(interviews[i].responses) < MaxResponses
    /\ \A s \in Slots : requests_[s].pc = "idle"
    /\ Respond(i, recording_url, FALSE)
    /\ UNCHANGED <<reportWrites, redis_questions, createPc, callTasks, reportTasks, reportAwaiting,
                   requests_>>

\* lines 202-222 for a request received earlier; a request of the same interview that
\* is still in flight learns that this one appended
ProcessResponseInFlight(s) ==
    /\ requests_[s].pc = "form"
    /\ Respond(requests_[s].id, requests_[s].url, requests_[s].raced)
    /\ requests_' = [t \in Slots |->
           IF t = s THEN Idle
           ELSE IF t \in InFlight(requests_[s].id) /\ last'.appended
           THEN [requests_[t] EXCEPT !.raced = TRUE]
           ELSE requests_[t]]
    /\ UNCHANGED <<reportWrites, redis_questions, createPc, callTasks, reportTasks, reportAwaiting>>

\* ------------------------------------------------------------ handle_hangup
\* a hangup handler without the completed guard of line 233
HangupStatusUnguarded(status, call_status) ==
    CASE call_status = "no-answer" -> "no_answer"
      [] call_status = "busy" -> "busy"
      [] OTHER -> "call_failed"

\* a status map whose "canceled" entry is wrong
HangupStatusCanceledBusy(status, call_status) ==
    IF status # "completed"
    THEN CASE call_status = "no-answer" -> "no_answer"
           [] call_status = "busy" -> "busy"
           [] call_status = "canceled" -> "busy"
           [] OTHER -> "call_failed"
    ELSE status

\* a status map that believes the provider when it reports a completed call
HangupStatusTrusting(status, call_status) ==
    IF status # "completed"
    THEN CASE call_status = "no-answer" -> "no_answer"
           [] call_status = "busy" -> "busy"
           [] call_status = "completed" -> "completed"
           [] OTHER -> "call_failed"
    ELSE status

\* lines 233-236
HangupStatus(status, call_status) ==
    IF status # "completed"
    THEN CASE call_status = "no-answer" -> "no_answer"
           [] call_status = "busy" -> "busy"
           [] call_status = "failed" -> "call_failed"
           [] call_status = "canceled" -> "call_failed"
           [] OTHER -> "call_failed"
    ELSE status

\* a hangup handler that schedules the report whatever the status
SchedulesReportAlways(status) == TRUE

\* line 239
SchedulesReport(status) == status = "completed"

\* lines 226-243; the form is awaited before anything is read
HandleHangup(i, call_status) ==
    /\ IF i \notin Rows
       THEN /\ last' = Step("hangup", i, call_status, Plain("error"), FALSE, FALSE)
            /\ UNCHANGED <<interviews, reportTasks>>
       ELSE LET status == HangupStatus(interviews[i].status, call_status)
            IN  /\ SchedulesReport(status) =>
                       reportTasks[i] + reportAwaiting[i] < MaxReportTasks
                /\ interviews' = [interviews EXCEPT ![i] = Commit(@, [status |-> status])]
                /\ reportTasks' = [reportTasks EXCEPT ![i] =
                       IF SchedulesReport(status) THEN @ + 1 ELSE @]
                /\ last' = Step("hangup", i, call_status, Plain("ok"),
                                FALSE, FALSE)
    /\ roundTrip' = [roundTrip EXCEPT ![i] = RoundTripNext(@, "hangup", "")]
    /\ UNCHANGED <<reportWrites, redis_questions, redis_current_question, createPc, callTasks,
                   reportAwaiting, requests_, turn>>

\* ------------------------------------------------ generate_interview_report
\* lines 92-98: one block per response that carries a recording
Conversation(responses) ==
    SelectSeq(responses, LAMBDA resp : resp.recording_url # NoRecording)

\* lines 89-103 on a row: "return" leaves at line 90, "marker" at line 103,
\* "await" goes on to call_google_ai; assigned is the value given to interview.report
ReportFirstPart(row) ==
    IF row.responses = <<>> THEN [exit |-> "return", row |-> row, assigned |-> None]
    ELSE IF Conversation(row.responses) = <<>>
    THEN [exit |-> "marker", row |-> Commit(row, [report |-> Some(NoValidResponses)]),
          assigned |-> Some(NoValidResponses)]
    ELSE [exit |-> "await", row |-> row, assigned |-> None]

\* lines 119-130 on a row and the reply text
ReportSecondPart(row, report_text) ==
    LET parsed == ParseReport(report_text)
    IN  IF parsed.ok
        THEN [exit |-> "report",
              row |-> Commit(row, [report |-> Some(parsed.value),
                                   status |-> "report_ready"]),
              assigned |-> Some(parsed.value)]
        ELSE [exit |-> "marker",
              row |-> Commit(row, [report |-> Some(FailedToGenerate)]),
              assigned |-> Some(FailedToGenerate)]

\* what a step of the background task leaves behind: where it left, and the
\* "error" and the other fields of the report it assigned, if it assigned one
Wrote(out) ==
    [ok |-> TRUE,
     say |-> IF out.assigned = None THEN <<>>
             ELSE <<Get(out.assigned).error, Get(out.assigned).fields>>,
     then |-> out.exit]

Counted(writes, out) ==
    IF writes # None /\ out.assigned # None /\ Get(writes) < 2
    THEN Some(Get(writes) + 1)
    ELSE writes

\* lines 89-118: the background task up to its await
ReportStart(i) ==
    /\ reportTasks[i] > 0
    /\ reportTasks' = [reportTasks EXCEPT ![i] = @ - 1]
    /\ LET out == ReportFirstPart(interviews[i])
       IN  /\ interviews' = [interviews EXCEPT ![i] = out.row]
           /\ reportAwaiting' = [reportAwaiting EXCEPT ![i] =
                  IF out.exit = "await" THEN @ + 1 ELSE @]
           /\ reportWrites' = [reportWrites EXCEPT ![i] = Counted(@, out)]
           /\ last' = Step("report_start", i, "", Wrote(out), FALSE, FALSE)
    /\ UNCHANGED <<redis_questions, redis_current_question, createPc, callTasks,
                   requests_, turn, roundTrip>>

\* lines 118-130: the reply arrives
ReportFinish(i, reply) ==
    /\ reportAwaiting[i] > 0
    /\ reportAwaiting' = [reportAwaiting EXCEPT ![i] = @ - 1]
    /\ LET out == ReportSecondPart(interviews[i], call_google_ai(reply))
       IN  /\ interviews' = [interviews EXCEPT ![i] = out.row]
           /\ reportWrites' = [reportWrites EXCEPT ![i] = Counted(@, out)]
           /\ last' = Step("report", i, IF reply.raised THEN "raised" ELSE "text",
                           Wrote(out), FALSE, FALSE)
    /\ UNCHANGED <<redis_questions, redis_current_question, createPc, callTasks,
                   reportTasks, requests_, turn, roundTrip>>

\* ------------------------------------------------------------------ Next
Next ==
    \/ \E i \in InterviewIds : CreateBegin(i)
    \/ \E i \in InterviewIds, reply \in Replies(QuestionTexts) : CreateFinish(i, reply)
    \/ \E i \in InterviewIds : ManualCallTrigger(i)
    \/ \E i \in InterviewIds, outcome \in DispatchOutcomes : MakePlivoCall(i, outcome)
    \/ \E i \in InterviewIds : HandleCallAnswer(i)
    \/ \E i \in InterviewIds, url \in RecordingUrls : ProcessResponse(i, url)
    \/ \E i \in InterviewIds, call_status \in CallStatuses : HandleHangup(i, call_status)
    \/ \E i \in InterviewIds : ReportStart(i)
    \/ \E i \in InterviewIds, reply \in Replies(ReportTexts) : ReportFinish(i, reply)

Spec == Init /\ [][Next]_vars

\* The same program with the history of report assignments kept
InitWrites ==
    /\ interviews = <<>>
    /\ redis_questions = [i \in InterviewIds |-> None]
    /\ redis_current_question = [i \in InterviewIds |-> None]
    /\ createPc = [i \in InterviewIds |-> "idle"]
    /\ callTasks = [i \in InterviewIds |-> 0]
    /\ reportTasks = [i \in InterviewIds |-> 0]
    /\ reportAwaiting = [i \in InterviewIds |-> 0]
    /\ reportWrites = [i \in InterviewIds |-> Some(0)]
    /\ requests_ = [s \in Slots |-> Idle]
    /\ turn = [i \in InterviewIds |-> None]
    /\ roundTrip = [i \in InterviewIds |-> RoundTripStart]
    /\ last = Step("init", "", "", Plain(""), FALSE, FALSE)

SpecWrites == InitWrites /\ [][Next]_vars

\* Recording webhooks of one interview in flight at the same time
NextRace ==
    \/ \E i \in InterviewIds : CreateBegin(i)
    \/ \E i \in InterviewIds, reply \in Replies(QuestionTexts) : CreateFinish(i, reply)
    \/ \E i \in InterviewIds : HandleCallAnswer(i)
    \/ \E s \in Slots, i \in InterviewIds, url \in RecordingUrls : RecordReceive(s, i, url)
    \/ \E s \in Slots : ProcessResponseInFlight(s)

SpecRace == Init /\ [][NextRace]_vars

\* The report generator on its own: a stored interview and one scheduled task
StoredInterview(status, questions, urls) ==
    [status |-> status, questions |-> Some(questions),
     responses |-> [k \in 1..Len(urls) |->
                       [question |-> questions[k], recording_url |-> urls[k]]],
     report |-> None]

StoredInterviews ==
    UNION {{StoredInterview(st, qs, urls) :
                st \in {"completed", "ringing", "call_failed", "no_answer"},
                urls \in UNION {[1..m -> RecordingUrls] : m \in 0..Len(qs)}} :
           qs \in {Questions(n) : n \in 1..MaxQ} \cup {FallbackQuestions}}

InitReport ==
    /\ \E row \in StoredInterviews : interviews = [i \in InterviewIds |-> row]
    /\ redis_questions = [i \in InterviewIds |-> interviews[i].questions]
    /\ redis_current_question = [i \in InterviewIds |-> None]
    /\ createPc = [i \in InterviewIds |-> "done"]
    /\ callTasks = [i \in InterviewIds |-> 0]
    /\ reportTasks = [i \in InterviewIds |-> 1]
    /\ reportAwaiting = [i \in InterviewIds |-> 0]
    /\ reportWrites = [i \in InterviewIds |-> None]
    /\ requests_ = [s \in Slots |-> Idle]
    /\ turn = [i \in InterviewIds |-> None]
    /\ roundTrip = [i \in InterviewIds |-> RoundTripOff]
    /\ last = Step("init", "", "", Plain(""), FALSE, FALSE)

NextReport ==
    \/ \E i \in InterviewIds : ReportStart(i)
    \/ \E i \in InterviewIds, reply \in Replies(ReportTexts) : ReportFinish(i, reply)

SpecReport == InitReport /\ [][NextReport]_vars

\* ================================================================ claims
QuestionsOf(i) == IF interviews[i].questions = None THEN <<>> ELSE Get(interviews[i].questions)
ResponsesOf(i) == interviews[i].responses

\* C1: after every record event, an interview holds no more responses than questions.
C1_ResponsesWithinQuestions ==
    \A i \in Rows :
        (last.op = "record" /\ last.id = i) => Len(ResponsesOf(i)) <= Len(QuestionsOf(i))

\* C2: of two record events of one interview that were in flight at the same time,
\* the one handled second does not append a response (nor advance the cursor) when
\* the first one appended.
C2_RacingRecordsAppendOnce ==
    (last.op = "record" /\ last.raced) => ~last.appended

\* C3: every stored response is paired with the question at its own position.
C3_ResponsesPairedByPosition ==
    \A i \in Rows : \A k \in 1..Len(ResponsesOf(i)) :
        /\ k <= Len(QuestionsOf(i))
        /\ ResponsesOf(i)[k].question = QuestionsOf(i)[k]

\* C4: a hangup event received while status is completed leaves status completed,
\* whatever the provider call status is.
C4_HangupKeepsCompleted ==
    [][\A i \in InterviewIds, call_status \in CallStatuses :
          (HandleHangup(i, call_status) /\ StatusOf(i) = "completed")
              => interviews'[i].status = "completed"]_vars

C4_Witness ==
    /\ last.op = "hangup"
    /\ last.arg = "no-answer"
    /\ StatusOf(last.id) = "completed"

\* C5: the k-th record event after an answer on an interview with N questions
\* returns the directive speaking the next question and recording again while
\* k < N, and the thank-you / hang-up directive with status completed when k = N;
\* from the N-th on no record directive is returned.
C5_RecordsRunToCompletion ==
    \A i \in Rows :
        (last.op = "record" /\ last.id = i /\ last.appended /\ turn[i] # None) =>
            LET n == Len(Get(redis_questions[i]))
                k == Get(turn[i])
            IN  /\ k < n =>
                    /\ last.say = <<NextQuestion, Get(redis_questions[i])[k + 1]>>
                    /\ last.then = "Record"
                /\ k >= n =>
                    /\ last.say = <<ThankYou>>
                    /\ last.then = "Hangup"
                    /\ StatusOf(i) = "completed"

C5_Witness ==
    \E i \in Rows :
        /\ last.op = "record" /\ last.id = i
        /\ turn[i] = Some(MaxQ)
        /\ Len(QuestionsOf(i)) = MaxQ
        /\ last.then = "Hangup"
        /\ StatusOf(i) = "completed"

\* C6: after create, one answer, N record events and a hangup, the stored responses
\* are exactly the N questions in order, each with the recording reference of its
\* record event.
C6_RoundTrip ==
    \A i \in Rows :
        (roundTrip[i].phase = "hungup" /\ Len(roundTrip[i].refs) = Len(QuestionsOf(i))) =>
            ResponsesOf(i) =
                [k \in 1..Len(QuestionsOf(i)) |->
                    [question |-> QuestionsOf(i)[k],
                     recording_url |-> roundTrip[i].refs[k]]]

C6_Witness ==
    \E i \in Rows :
        /\ roundTrip[i].phase = "hungup"
        /\ Len(QuestionsOf(i)) = MaxQ
        /\ Len(roundTrip[i].refs) = MaxQ
        /\ roundTrip[i].refs[1] # roundTrip[i].refs[MaxQ]

\* C7: an answer event for an interview with no cached question list returns the
\* apology directive and changes neither status nor cursor nor responses.
C7_AnswerWithoutCache ==
    [][\A i \in InterviewIds :
          (HandleCallAnswer(i) /\ redis_questions[i] = None) =>
              /\ last'.say = <<Sorry>>
              /\ last'.then = "Hangup"
              /\ interviews' = interviews
              /\ redis_current_question' = redis_current_question]_vars

C7_Witness ==
    /\ last.op = "answer"
    /\ last.say = <<Sorry>>
    /\ last.id \in Rows
    /\ redis_questions[last.id] = None

\* C8: every answer event and every record event returns a voice directive
\* document, never a raw error.
C8_WebhooksAlwaysReturnDirective ==
    last.op \in {"answer", "record"} => last.ok

C10_DispatchStatus ==
    \A i \in Rows :
        (last.op = "dispatch" /\ last.id = i) =>
            StatusOf(i) = (IF last.arg = "accepted" THEN "ringing" ELSE "call_failed")

\* C11: a hangup event received while status is not completed sets status by the
\* provider call status: "no-answer" gives no_answer, "busy" gives busy, anything
\* else ("failed", "canceled", unrecognised, missing) gives call_failed.
C11_HangupMapsProviderStatus ==
    [][\A i \in InterviewIds, call_status \in CallStatuses :
          (HandleHangup(i, call_status) /\ i \in Rows /\ StatusOf(i) # "completed") =>
              interviews'[i].status =
                  (IF call_status = "no-answer" THEN "no_answer"
                   ELSE IF call_status = "busy" THEN "busy"
                   ELSE "call_failed")]_vars

C11_Witness ==
    /\ last.op = "hangup"
    /\ last.arg = "canceled"
    /\ StatusOf(last.id) = "call_failed"

\* C12: whatever the generative capability returns, create ends with status
\* ready_to_call and a non-empty question list stored in the row and in the cache.
C12_CreateAlwaysYieldsQuestions ==
    \A i \in Rows :
        (last.op = "create" /\ last.id = i) =>
            /\ last.ok
            /\ StatusOf(i) = "ready_to_call"
            /\ interviews[i].questions # None
            /\ Len(QuestionsOf(i)) >= 1
            /\ redis_questions[i] = interviews[i].questions

\* C13: every change of an interview's status follows an edge of
\* created -> generating_questions -> ready_to_call -> ringing -> in_progress ->
\* completed -> report_ready, or ringing / in_progress -> call_failed, no_answer,
\* busy; status never moves backwards and never leaves a terminal status.
StatusEdges ==
    {<<"created", "generating_questions">>, <<"generating_questions", "ready_to_call">>,
     <<"ready_to_call", "ringing">>, <<"ringing", "in_progress">>,
     <<"in_progress", "completed">>, <<"completed", "report_ready">>}
    \cup ({"ringing", "in_progress"} \X {"call_failed", "no_answer", "busy"})

C13_StatusFollowsGraph ==
    [][\A i \in Rows :
          interviews'[i].status # interviews[i].status =>
              <<interviews[i].status, interviews'[i].status>> \in StatusEdges]_vars

\* C14: report generation on an interview that has responses ends in one of two
\* outcomes: the reply parses as an object, the parsed report is persisted and the
\* status becomes report_ready; or it does not parse, an error-marker report is
\* persisted and the status stays completed.
C14_ReportPersistedOrMarker ==
    \A i \in Rows :
        (last.op = "report" /\ last.id = i) =>
            \/ /\ last.then = "report"
               /\ interviews[i].report # None
               /\ <<Get(interviews[i].report).error,
                    Get(interviews[i].report).fields>> = last.say
               /\ StatusOf(i) = "report_ready"
            \/ /\ last.then = "marker"
               /\ interviews[i].report = Some(FailedToGenerate)
               /\ StatusOf(i) = "completed"

\* C15: when the capability call fails during report generation, the interview ends
\* with an error-marker report and status completed; report_ready is only ever set
\* together with a parsed report object, never together with an error marker.
C15_CapabilityFailureLeavesMarker ==
    \A i \in Rows :
        /\ (last.op = "report" /\ last.id = i /\ last.arg = "raised") =>
               /\ last.then = "marker"
               /\ StatusOf(i) = "completed"
        /\ (last.op = "report" /\ last.id = i /\ last.then = "report") =>
               last.say[1] = ""

\* the last step was a report task assigning interview.report
ReportWritten(i) ==
    /\ last.op \in {"report_start", "report"}
    /\ last.id = i
    /\ last.say # <<>>

\* C16: for each interview, over any sequence of events (repeated hangups included),
\* the report is written at most once, and only while the status is completed or
\* report_ready.
C16_ReportWrittenOnce ==
    \A i \in Rows :
        /\ reportWrites[i] # None
        /\ Get(reportWrites[i]) <= 1
        /\ ReportWritten(i) => StatusOf(i) \in {"completed", "report_ready"}

\* C17: report generation is scheduled only by a hangup event that finds status
\* completed after its own status step; a record event never schedules it, and a
\* hangup that sets no_answer, busy or call_failed never schedules it.
C17_OnlyCompletedHangupSchedules ==
    [][\A i \in InterviewIds :
          /\ reportTasks'[i] > reportTasks[i] =>
                 /\ last'.op = "hangup"
                 /\ last'.id = i
                 /\ StatusOf(i)' = "completed"
          /\ (last'.op = "hangup" /\ last'.id = i
                /\ StatusOf(i)' \in {"no_answer", "busy", "call_failed"}) =>
                 reportTasks'[i] = reportTasks[i]
          /\ (last'.op = "record" /\ last'.id = i) =>
                 reportTasks'[i] = reportTasks[i]]_vars

C17_Witness ==
    /\ last.op = "hangup"
    /\ StatusOf(last.id) = "completed"
    /\ reportTasks[last.id] > 0

\* C18: a hangup event for an existing interview whose status is ready_to_call or
\* ringing returns an acknowledgement without raising and leaves the interview in
\* no_answer, busy or call_failed, never in completed.
C18_HangupBeforeAnswer ==
    [][\A i \in InterviewIds, call_status \in CallStatuses :
          (HandleHangup(i, call_status)
             /\ StatusOf(i) \in {"ready_to_call", "ringing"}) =>
              /\ last'.ok
              /\ last'.then = "ok"
              /\ StatusOf(i)' \in {"no_answer", "busy", "call_failed"}]_vars

C18_Witness ==
    /\ last.op = "hangup"
    /\ last.arg = "completed"
    /\ last.ok
    /\ last.id \in Rows
    /\ turn[last.id] = None
    /\ StatusOf(last.id) = "call_failed"

\* C19: an answer event on an interview with a cached question list sets status
\* in_progress and the cursor to 0 every time, returns the directive speaking
\* questions[0] followed by a record directive, and leaves the durable questions
\* and responses unchanged.
C19_AnswerStartsAtFirstQuestion ==
    [][\A i \in InterviewIds :
          (HandleCallAnswer(i) /\ redis_questions[i] # None /\ i \in Rows) =>
              /\ StatusOf(i)' = "in_progress"
              /\ redis_current_question'[i] = Some(0)
              /\ last'.ok
              /\ Len(Get(redis_questions[i])) > 0
              /\ last'.say = <<Greeting, Get(redis_questions[i])[1]>>
              /\ last'.then = "Record"
              /\ interviews'[i].questions = interviews[i].questions
              /\ interviews'[i].responses = interviews[i].responses]_vars

\* the cursor of interview i indexes its cached question list
CursorInRange(cursor, cached) ==
    cursor # None =>
        /\ cached # None
        /\ 0 <= Get(cursor)
        /\ Get(cursor) < Len(Get(cached))

\* C20: whenever an interview's cursor exists, 0 <= current_index < len(questions);
\* so every record event indexes the question list in range and the cursor never
\* grows by more than 1 in one record event.
C20_CursorInRange ==
    [][\A i \in InterviewIds :
          /\ CursorInRange(redis_current_question[i], redis_questions[i])
          /\ CursorInRange(redis_current_question'[i], redis_questions'[i])
          /\ (last'.op = "record" /\ last'.id = i /\ i \in Rows) =>
                 /\ last'.then # "IndexError"
                 /\ CurrentIndex(redis_current_question'[i])
                        <= CurrentIndex(redis_current_question[i]) + 1]_vars

====
